---- MODULE Spec2Model ----
(***************************************************************************)
(* python2proto: pydantic_models_to_protos and its helpers                 *)
(* (src/python2proto/__init__.py), modelled as a state machine.  A caller  *)
(* owns one set object and makes calls; each call runs the for loop over   *)
(* models and the recursive parse_model, one field of one frame per step.  *)
(***************************************************************************)
EXTENDS Integers, Sequences, FiniteSets, TLC

VARIABLES
    classes,         \* the declared classes: handle -> [name, conv, fields]
    callerSet,       \* content of the set object the caller owns
    pc,              \* "idle" (no call yet), "running", "returned" or "raised"
    models,          \* argument models of the current call
    passed,          \* "none": already_visited omitted, "set": the caller's set passed
    aliased,         \* visited_models is the caller's set object (line 100)
    seed,            \* content of the already_visited argument when the call started
    visited_models,  \* line 100
    proto_messages,  \* line 99
    emitted,         \* per entry of proto_messages: whose message it is
    mi,              \* position of the for loop of line 161
    stack,           \* the active parse_model frames, innermost last
    bodies,          \* parse_model invocations of this call that got past line 104
    proto_schema,    \* the value the call returned (line 165)
    output,          \* whose messages proto_schema holds, in its order
    prevEmitted      \* types that got a message in an earlier call that was
                     \* passed the caller's set

vars == <<classes, callerSet, pc, models, passed, aliased, seed,
          visited_models, proto_messages, emitted, mi, stack, bodies,
          proto_schema, output, prevEmitted>>

\* Bound: the longest models list a call is given.
MaxModels == 2

-----------------------------------------------------------------------------
\* Type expressions.  k is the kind, n a name or class handle, args the
\* parameters of a generic alias.
ty(k, n, args) == [k |-> k, n |-> n, args |-> args]

IntT      == ty("scalar", "int", <<>>)
FloatT    == ty("scalar", "float", <<>>)
StrT      == ty("scalar", "str", <<>>)
BoolT     == ty("scalar", "bool", <<>>)
BytesT    == ty("scalar", "bytes", <<>>)
AnyT     == ty("scalar", "Any", <<>>)
NoneType == ty("builtin", "NoneType", <<>>)
Complex  == ty("builtin", "complex", <<>>)
Cls(h)   == ty("class", h, <<>>)
Fwd(h)   == ty("fwd", h, <<>>)
UnionOf(args) == ty("union", "", args)
Opt(t)   == UnionOf(<<t, NoneType>>)
Lst(t)   == ty("list", "", <<t>>)
Dct(kt, vt) == ty("dict", "", <<kt, vt>>)
\* typing.List and typing.Dict written without parameters, and the type
\* variable that stands for a parameter in the runtimes that give them __args__.
BareList == ty("list", "", <<>>)
BareDict == ty("dict", "", <<>>)
TypeVarT == ty("typevar", "T", <<>>)

fld(name, t) == [name |-> name, type |-> t]
member(name, t, dunder) == [name |-> name, type |-> t, dunder |-> dunder]
class(name, conv, fields) == [name |-> name, conv |-> conv, fields |-> fields]

Handles == {"T1", "T2", "T3"}

\* The declarations each handle may stand for.  T1 is declared first, T3 next,
\* T2 last: a class names an earlier class directly and a later one (or
\* itself) by a forward reference.
Decls(h) ==
    CASE h = "T1" -> {
           class("Point", "pydantic", <<fld("x", IntT), fld("y", IntT)>>),
           class("Node", "pydantic",
                 <<fld("value", IntT), fld("children", Opt(Lst(Fwd("T1"))))>>),
           class("User", "pydantic",
                 <<fld("home", Fwd("T2")), fld("items", Dct(StrT, Fwd("T3")))>>),
           class("A", "pydantic",
                 <<fld("peer", Opt(Fwd("T2"))), fld("kids", Lst(Fwd("T1")))>>) }
      [] h = "T2" -> {
           class("Address", "dataclass", <<fld("street", StrT), fld("zipcode", IntT)>>),
           class("B", "dataclass",
                 <<fld("owner", Cls("T1")), fld("c", Lst(Cls("T3"))),
                   fld("next", Fwd("T2"))>>),
           class("Dept", "attrs",
                 <<fld("m", Dct(IntT, Cls("T3"))), fld("raw", BytesT),
                   fld("d", Opt(Dct(StrT, Cls("T3")))), fld("u", UnionOf(<<IntT, StrT>>)),
                   fld("z", Complex), fld("t", Opt(Lst(Cls("T3"))))>>) }
      [] h = "T3" -> {
           class("Config", "regular",
                 <<member("version", IntT, FALSE), member("__module__", StrT, TRUE),
                   member("label", StrT, FALSE)>>),
           class("C", "typeddict",
                 <<fld("a", Cls("T1")), fld("b", Dct(BytesT, FloatT)),
                   fld("any", AnyT), fld("ok", Opt(BoolT))>>) }

\* Declarations with unparameterised generics, a type that is no listed
\* scalar, a Union without None, NoneType and a class without fields.
LooseDecls(h) ==
    CASE h = "T1" -> {
           class("Holder", "pydantic",
                 <<fld("n", NoneType), fld("loose", Fwd("T3")),
                   fld("u", UnionOf(<<IntT, StrT>>)), fld("e", Fwd("T2"))>>),
           class("Plain", "pydantic", <<fld("z", Complex), fld("kv", BareDict)>>) }
      [] h = "T2" -> {
           class("Empty", "regular", <<member("__module__", StrT, TRUE)>>),
           class("Nothing", "dataclass", <<>>) }
      [] h = "T3" -> {
           class("Loose", "dataclass",
                 <<fld("kv", BareDict), fld("xs", BareList), fld("o", Opt(BareList))>>),
           class("Bag", "attrs", <<fld("xs", BareList), fld("e", Cls("T2"))>>) }

\* Alphabetical order of the attribute names a regular class may have.
Alphabetical == <<"__module__", "label", "version">>

-----------------------------------------------------------------------------
\* The classifiers, lines 18-52.
is_pydantic_model(cls) == cls.k = "class" /\ classes[cls.n].conv = "pydantic"
is_dataclass(cls)      == cls.k = "class" /\ classes[cls.n].conv = "dataclass"
is_attrs_class(cls)    == cls.k = "class" /\ classes[cls.n].conv = "attrs"
is_typed_dict(cls)     == cls.k = "class" /\ classes[cls.n].conv = "typeddict"

is_regular_class(cls) ==
    /\ cls.k \in {"class", "builtin", "scalar"}       \* isinstance(cls, type)
    /\ cls.k = "class"                                \* __module__ != 'builtins'
    /\ ~(is_pydantic_model(cls) \/ is_dataclass(cls) \/ is_attrs_class(cls)
           \/ is_typed_dict(cls))

is_model(cls) ==
    IF cls.k = "scalar" THEN FALSE
    ELSE is_pydantic_model(cls) \/ is_dataclass(cls) \/ is_attrs_class(cls)
           \/ is_typed_dict(cls) \/ is_regular_class(cls)

__name__(cls) == classes[cls.n].name

\* typing.get_type_hints: forward references are evaluated, at every depth.
RECURSIVE get_type_hints_eval(_)
get_type_hints_eval(t) ==
    IF t.k = "fwd" THEN Cls(t.n)
    ELSE [t EXCEPT !.args = [i \in DOMAIN t.args |-> get_type_hints_eval(t.args[i])]]

\* inspect.getmembers: the members sorted by name.
getmembers(ms) ==
    LET present(i) == \E j \in DOMAIN ms : ms[j].name = Alphabetical[i]
        pick(i) == CHOOSE j \in DOMAIN ms : ms[j].name = Alphabetical[i]
        RECURSIVE walk(_)
        walk(i) == IF i > Len(Alphabetical) THEN <<>>
                   ELSE IF present(i) THEN <<ms[pick(i)]>> \o walk(i + 1)
                   ELSE walk(i + 1)
    IN  walk(1)

\* Lines 54-68: the ordered mapping field name -> declared type.
get_model_fields(model) ==
    LET c == classes[model.n] IN
    IF is_pydantic_model(model)
    THEN [i \in DOMAIN c.fields |->
            fld(c.fields[i].name, get_type_hints_eval(c.fields[i].type))]
    ELSE IF is_dataclass(model) \/ is_attrs_class(model) \/ is_typed_dict(model)
    THEN c.fields
    ELSE IF is_regular_class(model)
    THEN LET kept == SelectSeq(getmembers(c.fields), LAMBDA m : ~m.dunder)
         IN  [i \in DOMAIN kept |-> fld(kept[i].name, kept[i].type)]
    ELSE <<>>

-----------------------------------------------------------------------------
\* Lines 70-79 without the entry of line 76.
map_scalar_type_no_bytes(py_type) ==
    CASE py_type = IntT   -> "int32"
      [] py_type = FloatT -> "float"
      [] py_type = StrT   -> "string"
      [] py_type = BoolT  -> "bool"
      [] py_type = AnyT   -> "string"
      [] OTHER            -> "string"

\* Lines 70-79.
map_scalar_type(py_type) ==
    CASE py_type = IntT   -> "int32"
      [] py_type = FloatT -> "float"
      [] py_type = StrT   -> "string"
      [] py_type = BoolT  -> "bool"
      [] py_type = BytesT -> "bytes"
      [] py_type = AnyT  -> "string"
      [] OTHER           -> "string"

\* Lines 81-88.
map_type(py_type) ==
    IF py_type \in {IntT, FloatT, StrT, BoolT, BytesT, AnyT} THEN map_scalar_type(py_type)
    ELSE IF is_model(py_type) THEN __name__(py_type)
    ELSE "string"

-----------------------------------------------------------------------------
\* Text.  A formatted line is built from its pieces; str.strip() removes the
\* pieces at either end that are empty or blank.
RECURSIVE concat(_)
concat(pieces) ==
    IF pieces = <<>> THEN "" ELSE Head(pieces) \o concat(Tail(pieces))

IsBlank(piece) == piece \in {"", " "}

RECURSIVE lstrip(_)
lstrip(pieces) ==
    IF pieces # <<>> /\ IsBlank(Head(pieces)) THEN lstrip(Tail(pieces)) ELSE pieces

RECURSIVE rstrip(_)
rstrip(pieces) ==
    IF pieces # <<>> /\ IsBlank(pieces[Len(pieces)])
    THEN rstrip(SubSeq(pieces, 1, Len(pieces) - 1))
    ELSE pieces

strip(pieces) == concat(rstrip(lstrip(pieces)))

\* reversed() of line 164 giving the sequence in its own order.
reversed_same_order(s) == s

\* reversed() of line 164.
reversed(s) == [i \in DOMAIN s |-> s[Len(s) + 1 - i]]

RECURSIVE join(_, _)
join(sep, s) ==
    IF s = <<>> THEN ""
    ELSE IF Len(s) = 1 THEN s[1]
    ELSE s[1] \o sep \o join(sep, Tail(s))

Range(s) == {s[i] : i \in DOMAIN s}

-----------------------------------------------------------------------------
\* One iteration of the loop of line 110, as functions of the declared type.

\* Lines 115-120: a Union with None among its members becomes its first other
\* member (Any when there is none); any other Union is left as it is.
union_branch(field_type) ==
    LET args == field_type.args
        rest == SelectSeq(args, LAMBDA a : a # NoneType)
    IN  IF NoneType \in Range(args)
        THEN IF rest # <<>> THEN rest[1] ELSE AnyT
        ELSE field_type

\* Line 118.
is_optional(field_type) ==
    field_type.k = "union" /\ NoneType \in Range(field_type.args)

\* Lines 123-124: the elif is reached only when the declared type is no Union.
is_repeated(field_type) == field_type.k # "union" /\ field_type.k = "list"

\* Line 128: reached only when the declared type is neither Union nor list.
is_map(field_type) ==
    field_type.k # "union" /\ field_type.k # "list" /\ field_type.k = "dict"

\* Lines 115-125: field_type as it stands at line 143.
effective_type(field_type) ==
    IF field_type.k = "union" THEN union_branch(field_type)
    ELSE IF field_type.k = "list"
    THEN IF field_type.args # <<>> THEN field_type.args[1] ELSE TypeVarT
    ELSE field_type

\* Lines 125 and 129: field_type.__args__ of typing.List or typing.Dict without
\* parameters.  Python 3.9 and later raise AttributeError; 3.7 and 3.8 give
\* the type variables.
needs_args(field_type) ==
    field_type.k \in {"list", "dict"} /\ field_type.args = <<>>

\* Line 129.
key_type(field_type) ==
    IF field_type.args # <<>> THEN field_type.args[1] ELSE AnyT
value_type(field_type) ==
    IF field_type.args # <<>> THEN field_type.args[2] ELSE AnyT

\* Line 131.
key_type_name(kt) ==
    IF kt \in {IntT, FloatT, StrT, BoolT} THEN map_scalar_type(kt) ELSE "string"

\* The type lines 132 and 143 test with is_model.
nested_type(field_type) ==
    IF is_map(field_type) THEN value_type(field_type) ELSE effective_type(field_type)

\* Lines 132-136 and 143-147.
type_name(field_type) ==
    LET t == nested_type(field_type)
    IN  IF is_model(t) THEN __name__(t) ELSE map_type(t)

\* Line 149.
field_rule(field_type) == IF is_repeated(field_type) THEN "repeated" ELSE ""

\* Lines 137 and 150.
field_line(field_type, field_name, idx) ==
    IF is_map(field_type)
    THEN concat(<<"map<", key_type_name(key_type(field_type)), ", ",
                  type_name(field_type), "> ", field_name, " = ", ToString(idx), ";">>)
    ELSE strip(<<field_rule(field_type), " ", type_name(field_type), " ",
                 field_name, " = ", ToString(idx), ";">>)

\* Line 152 alone: the continue of line 140 placed before line 139.
next_idx_not_after_map(idx, field_type) ==
    IF field_type.k = "dict" THEN idx ELSE idx + 1

\* Lines 139 and 152.
next_idx(idx, field_type) == idx + 1

\* Lines 155-158.
message_text(message_name, lines) ==
    concat(<<"message ", message_name, " {\n">>)
      \o concat([i \in DOMAIN lines |-> concat(<<"    ", lines[i], ";\n">>)])
      \o "}\n"

\* Line 164 without reversed().
schema_order_as_appended(messages) == messages

\* Line 164.
schema_order(messages) == reversed(messages)

schema_text(messages) == join("\n", schema_order(messages))

-----------------------------------------------------------------------------
\* The visited set.

\* Line 100 as "already_visited if already_visited is not None else set()".
is_caller_object_not_none(how, content) == how = "set"

\* Line 100, already_visited or set(): the caller's object when one is passed
\* and it is not empty, a new empty set otherwise.
is_caller_object(how, content) == how = "set" /\ content # {}

\* Line 100 with a set that outlives the call as the default.
initial_visited_kept(how, content) == content

\* Line 100 with the argument ignored.
initial_visited_empty(how, content) == {}

initial_visited(how, content) ==
    IF is_caller_object(how, content) THEN content ELSE {}

\* Line 103 with the test left out.
in_visited_never(model, visited) == FALSE

\* Line 103.
in_visited(model, visited) == model \in visited

\* Line 105 as an assignment of a set holding the model alone.
add_visited_replace(visited, model) == {model}

\* Line 105 left out.
add_visited_not(visited, model) == visited

\* Line 105.
add_visited(visited, model) == visited \cup {model}

-----------------------------------------------------------------------------
ModelLists == UNION {[1..n -> Handles] : n \in 0..MaxModels}

frame(model, root) ==
    [model |-> model, message_name |-> classes[model].name,
     type_hints |-> get_model_fields(Cls(model)), pos |-> 1, idx |-> 1,
     fields |-> <<>>, root |-> root, awaiting |-> FALSE]

Top == stack[Len(stack)]
TopField == Top.type_hints[Top.pos]

Init ==
    /\ classes \in [Handles -> UNION {Decls(h) : h \in Handles}]
    /\ \A h \in Handles : classes[h] \in Decls(h)
    /\ callerSet \in SUBSET Handles
    /\ pc = "idle"
    /\ models = <<>>
    /\ passed = "none"
    /\ aliased = FALSE
    /\ seed = {}
    /\ visited_models = {}
    /\ proto_messages = <<>>
    /\ emitted = <<>>
    /\ mi = 1
    /\ stack = <<>>
    /\ bodies = 0
    /\ proto_schema = ""
    /\ output = <<>>
    /\ prevEmitted = {}

\* Lines 99-100: a call begins.
StartCall(ms, how) ==
    /\ pc \in {"idle", "returned", "raised"}
    /\ pc' = "running"
    /\ models' = ms
    /\ passed' = how
    /\ aliased' = is_caller_object(how, callerSet)
    /\ visited_models' = initial_visited(how, callerSet)
    /\ seed' = IF how = "set" THEN callerSet ELSE {}
    /\ proto_messages' = <<>>
    /\ emitted' = <<>>
    /\ mi' = 1
    /\ stack' = <<>>
    /\ bodies' = 0
    /\ proto_schema' = ""
    /\ output' = <<>>
    /\ UNCHANGED <<classes, callerSet, prevEmitted>>

\* Lines 103-109: parse_model gets past the test of line 103.
Enter(model, root, callers) ==
    /\ visited_models' = add_visited(visited_models, model)
    /\ callerSet' = IF aliased THEN add_visited(visited_models, model) ELSE callerSet
    /\ stack' = Append(callers, frame(model, root))
    /\ bodies' = bodies + 1

\* Lines 161-162 with lines 103-104: the model is in the visited set.
TopLevelSkip ==
    /\ pc = "running" /\ stack = <<>> /\ mi <= Len(models)
    /\ in_visited(models[mi], visited_models)
    /\ mi' = mi + 1
    /\ UNCHANGED <<classes, callerSet, pc, models, passed, aliased, seed,
                   visited_models, proto_messages, emitted, stack, bodies,
                   proto_schema, output, prevEmitted>>

\* Lines 161-162 with lines 103-109.
TopLevelEnter ==
    /\ pc = "running" /\ stack = <<>> /\ mi <= Len(models)
    /\ ~in_visited(models[mi], visited_models)
    /\ Enter(models[mi], models[mi], <<>>)
    /\ mi' = mi + 1
    /\ UNCHANGED <<classes, pc, models, passed, aliased, seed,
                   proto_messages, emitted, proto_schema, output, prevEmitted>>

\* Lines 133 and 144: the recursive call gets past the test of line 103.
FieldEnter ==
    /\ pc = "running" /\ stack # <<>>
    /\ Top.pos <= Len(Top.type_hints)
    /\ ~Top.awaiting
    /\ is_model(nested_type(TopField.type))
    /\ ~in_visited(nested_type(TopField.type).n, visited_models)
    /\ Enter(nested_type(TopField.type).n, Top.root,
             [stack EXCEPT ![Len(stack)].awaiting = TRUE])
    /\ UNCHANGED <<classes, pc, models, passed, aliased, seed,
                   proto_messages, emitted, mi, proto_schema, output, prevEmitted>>

\* Lines 111-152: the rest of the iteration, when the recursive call has
\* returned, at once (line 104) or at its end, or there was none to make.
FieldRender ==
    /\ pc = "running" /\ stack # <<>>
    /\ Top.pos <= Len(Top.type_hints)
    /\ \/ Top.awaiting
       \/ ~is_model(nested_type(TopField.type))
       \/ /\ ~Top.awaiting
          /\ is_model(nested_type(TopField.type))
          /\ in_visited(nested_type(TopField.type).n, visited_models)
    /\ stack' = [stack EXCEPT ![Len(stack)] =
                   [@ EXCEPT !.fields = Append(@,
                                 [line |-> field_line(TopField.type, TopField.name, Top.idx),
                                  name |-> TopField.name,
                                  type |-> TopField.type,
                                  type_name |-> type_name(TopField.type),
                                  idx |-> Top.idx]),
                             !.idx = next_idx(@, TopField.type),
                             !.pos = @ + 1,
                             !.awaiting = FALSE]]
    /\ UNCHANGED <<classes, callerSet, pc, models, passed, aliased, seed,
                   visited_models, proto_messages, emitted, mi, bodies,
                   proto_schema, output, prevEmitted>>

\* Lines 154-159: the message is built and appended; parse_model returns.
FinishModel ==
    /\ pc = "running" /\ stack # <<>>
    /\ Top.pos > Len(Top.type_hints)
    /\ proto_messages' =
         Append(proto_messages,
                message_text(Top.message_name,
                             [i \in DOMAIN Top.fields |-> Top.fields[i].line]))
    /\ emitted' = Append(emitted, [model |-> Top.model, root |-> Top.root,
                                   fields |-> Top.fields])
    /\ stack' = SubSeq(stack, 1, Len(stack) - 1)
    /\ UNCHANGED <<classes, callerSet, pc, models, passed, aliased, seed,
                   visited_models, mi, bodies, proto_schema, output, prevEmitted>>

\* Lines 164-165.
Return ==
    /\ pc = "running" /\ stack = <<>> /\ mi > Len(models)
    /\ proto_schema' = schema_text(proto_messages)
    /\ output' = schema_order(emitted)
    /\ pc' = "returned"
    /\ prevEmitted' = IF passed = "set"
                      THEN prevEmitted \cup {emitted[i].model : i \in DOMAIN emitted}
                      ELSE prevEmitted
    /\ UNCHANGED <<classes, callerSet, models, passed, aliased, seed, visited_models,
                   proto_messages, emitted, mi, stack, bodies>>

\* Lines 125 and 129: __args__ raises AttributeError, which leaves every
\* active parse_model and the call; nothing is returned.
FieldRaise ==
    /\ pc = "running" /\ stack # <<>>
    /\ Top.pos <= Len(Top.type_hints)
    /\ needs_args(TopField.type)
    /\ pc' = "raised"
    /\ stack' = <<>>
    /\ UNCHANGED <<classes, callerSet, models, passed, aliased, seed, visited_models,
                   proto_messages, emitted, mi, bodies, proto_schema, output,
                   prevEmitted>>

Next ==
    \/ \E ms \in ModelLists, how \in {"none", "set"} : StartCall(ms, how)
    \/ TopLevelSkip
    \/ TopLevelEnter
    \/ FieldEnter
    \/ FieldRender
    \/ FinishModel
    \/ Return

Spec == Init /\ [][Next]_vars

\* The same program over the declarations of LooseDecls.
InitLoose ==
    /\ classes \in [Handles -> UNION {LooseDecls(h) : h \in Handles}]
    /\ \A h \in Handles : classes[h] \in LooseDecls(h)
    /\ callerSet \in SUBSET Handles
    /\ pc = "idle"
    /\ models = <<>>
    /\ passed = "none"
    /\ aliased = FALSE
    /\ seed = {}
    /\ visited_models = {}
    /\ proto_messages = <<>>
    /\ emitted = <<>>
    /\ mi = 1
    /\ stack = <<>>
    /\ bodies = 0
    /\ proto_schema = ""
    /\ output = <<>>
    /\ prevEmitted = {}

\* With FieldRaise, which no declaration of Decls enables: there every List
\* and Dict has its parameters.
NextLoose == Next \/ FieldRaise

SpecLoose == InitLoose /\ [][NextLoose]_vars

-----------------------------------------------------------------------------
\* Vocabulary of the properties.

Returned == pc = "returned"

\* The types a type references: those parse_model is called with while the
\* fields of h are processed (lines 132-133 and 143-144).
Refs(h) ==
    LET hints == get_model_fields(Cls(h))
    IN  {nested_type(hints[i].type).n :
           i \in {j \in DOMAIN hints : is_model(nested_type(hints[j].type))}}

\* The types reachable from the models outside avoid, along references that
\* stay outside avoid.
RECURSIVE Closure(_, _)
Closure(R, avoid) ==
    LET more == R \cup ((UNION {Refs(h) : h \in R}) \ avoid)
    IN  IF more = R THEN R ELSE Closure(more, avoid)

Reachable(ms, avoid) == Closure(Range(ms) \ avoid, avoid)

Owners(msgs) == {msgs[i].model : i \in DOMAIN msgs}
Places(msgs, h) == {i \in DOMAIN msgs : msgs[i].model = h}

-----------------------------------------------------------------------------
\* C1: at no time does the accumulator hold two messages of one type, and
\* when a call returns its output holds one message for each type outside the
\* seed that is reachable from a model outside the seed along references that
\* avoid the seed, and for no other type.
C1_OncePerReachableType ==
    /\ \A h \in Handles : Cardinality(Places(emitted, h)) <= 1
    /\ Returned =>
         /\ \A h \in Handles : Cardinality(Places(output, h)) <= 1
         /\ Owners(output) = Reachable(models, seed)
         /\ Len(output) = Len(proto_messages)

\* A call with a seed has returned a message of a type that references a
\* seeded type, and no message of a type which that seeded type references.
C1_Witness ==
    /\ Returned
    /\ \E a \in Owners(output), t \in seed, h \in Handles \ seed :
         t \in Refs(a) /\ h \in Refs(t) /\ h \notin Owners(output)

-----------------------------------------------------------------------------
\* The steps a call still has to take, at most: one to return, one per model
\* left in the loop of line 161, one per field left plus one to finish for
\* each active frame, and for each type not yet visited one to enter it, one
\* per field and one to finish.
TypeCost(h) == Len(get_model_fields(Cls(h))) + 2
FrameCost(f) == Len(f.type_hints) - f.pos + 2

RECURSIVE TypesCost(_)
TypesCost(S) ==
    IF S = {} THEN 0
    ELSE LET h == CHOOSE x \in S : TRUE IN TypeCost(h) + TypesCost(S \ {h})

RECURSIVE FramesCost(_)
FramesCost(frames) ==
    IF frames = <<>> THEN 0 ELSE FrameCost(Head(frames)) + FramesCost(Tail(frames))

Rank ==
    IF pc # "running" THEN 0
    ELSE 1 + (Len(models) - mi + 1) + FramesCost(stack)
           + TypesCost(Handles \ visited_models)

\* C2: a call terminates on every type graph, cycles included: every step of
\* a running call lowers a measure that is a natural number, and no more
\* parse_model invocations get past line 104 than there are types.
C2_Terminates ==
    /\ [](pc = "running" => Rank >= 0 /\ bodies <= Cardinality(Handles))
    /\ [][pc = "running" => Rank' < Rank]_vars

\* A call over a mutual cycle has returned with both types emitted.
C2_Witness ==
    /\ Returned
    /\ \E a, b \in Owners(output) : a # b /\ b \in Refs(a) /\ a \in Refs(b)
    /\ \E a \in Owners(output) : a \in Refs(a)

-----------------------------------------------------------------------------
\* The type a declared field type stands for once an optional, a sequence or a
\* mapping around it is taken off, an optional around a sequence or a mapping
\* included.
Unwrapped(t) ==
    LET u == IF is_optional(t) THEN union_branch(t) ELSE t
    IN  IF u.k = "list" THEN u.args[1]
        ELSE IF u.k = "dict" THEN value_type(u)
        ELSE u

SelfFields(h) ==
    LET hints == get_model_fields(Cls(h))
    IN  {i \in DOMAIN hints : Unwrapped(hints[i].type) = Cls(h)}

\* C3: a type with a field that, unwrapped, is the type itself gets exactly one
\* message, in which each such field names the type by its own name.
C3_SelfReference ==
    Returned =>
      \A i \in DOMAIN output :
        LET h == output[i].model IN
        SelfFields(h) # {} =>
          /\ Cardinality(Places(output, h)) = 1
          /\ \A j \in SelfFields(h) : output[i].fields[j].type_name = classes[h].name

-----------------------------------------------------------------------------
\* C4: a seeded type gets no message, a call whose models are all seeded
\* returns the empty text, and a field of an emitted type that resolves to a
\* seeded type still names it.
C4_SeedSuppressesMessageOnly ==
    /\ Owners(emitted) \cap seed = {}
    /\ Returned =>
         /\ Owners(output) \cap seed = {}
         /\ (Range(models) \subseteq seed => proto_schema = "")
         /\ \A i \in DOMAIN output : \A j \in DOMAIN output[i].fields :
              LET f == output[i].fields[j]
                  t == nested_type(f.type)
              IN  (is_model(t) /\ t.n \in seed) =>
                    /\ f.type_name = classes[t.n].name
                    /\ f.type = Cls(t.n) =>
                         f.line = concat(<<classes[t.n].name, " ", f.name, " = ",
                                           ToString(f.idx), ";">>)

\* A call given a seeded model and another one has returned a message with a
\* plain field of a seeded type.
C4_Witness ==
    /\ Returned
    /\ Range(models) \cap seed # {}
    /\ \E i \in DOMAIN output : \E j \in DOMAIN output[i].fields :
         /\ output[i].fields[j].type.k = "class"
         /\ output[i].fields[j].type.n \in seed
         /\ output[i].fields[j].type_name = classes[output[i].fields[j].type.n].name

-----------------------------------------------------------------------------
\* C5: over the calls that are passed the caller's set, whatever it held at
\* first, no type gets a message in more than one call.
C5_NoDuplicateAcrossCalls ==
    (pc = "running" /\ passed = "set") => Owners(emitted) \cap prevEmitted = {}

-----------------------------------------------------------------------------
\* The text of the messages of msgs, in their order, joined as line 164 joins.
TextOf(msgs) ==
    join("\n", [i \in DOMAIN msgs |->
                  message_text(classes[msgs[i].model].name,
                               [j \in DOMAIN msgs[i].fields |-> msgs[i].fields[j].line])])

\* C6: when generate([A, B]) returns and A references B, the text holds A's
\* message before B's; and the message of a top-level type comes before the
\* message of every type emitted within its subtree.
C6_OrderingLaw ==
    Returned =>
      /\ proto_schema = TextOf(output)
      /\ ( /\ Len(models) = 2 /\ models[1] # models[2]
           /\ models[2] \in Refs(models[1])
           /\ models[1] \notin seed /\ models[2] \notin seed )
         => \E i \in Places(output, models[1]), j \in Places(output, models[2]) : i < j
      /\ \A j \in DOMAIN output :
           output[j].root # output[j].model =>
             \E i \in Places(output, output[j].root) : i < j

\* generate([A, B]) with A referencing B and nothing seeded has returned.
C6_Witness ==
    /\ Returned
    /\ Len(models) = 2 /\ models[1] # models[2]
    /\ models[2] \in Refs(models[1])
    /\ seed = {}
    /\ Len(output) >= 2

-----------------------------------------------------------------------------
\* C7: a message has one field per extracted field, in extraction order, and
\* the j-th carries index j, whatever the kinds of the fields.
C7_SequentialIndices ==
    \A i \in DOMAIN emitted :
      LET hints == get_model_fields(Cls(emitted[i].model))
          fields == emitted[i].fields
      IN  /\ Len(fields) = Len(hints)
          /\ \A j \in DOMAIN fields :
               /\ fields[j].idx = j
               /\ fields[j].name = hints[j].name
               /\ fields[j].type = hints[j].type

\* A message with a map field followed by other fields has been emitted, and
\* one with a repeated, an optional and a nested field.
C7_Witness ==
    /\ \E i \in DOMAIN emitted :
         /\ Len(emitted[i].fields) >= 3
         /\ is_map(emitted[i].fields[1].type)
    /\ \E i \in DOMAIN emitted : \E j, k \in DOMAIN emitted[i].fields :
         /\ j < k
         /\ is_optional(emitted[i].fields[j].type)
         /\ is_repeated(emitted[i].fields[k].type)
         /\ is_model(nested_type(emitted[i].fields[k].type))

-----------------------------------------------------------------------------
\* C8: a field declared as an optional around T is rendered as a field
\* declared T is; the children field of Node is 'repeated Node children = 2;'.
C8_OptionalRendersAsInner ==
    \A i \in DOMAIN emitted : \A j \in DOMAIN emitted[i].fields :
      LET f == emitted[i].fields[j] IN
      /\ is_optional(f.type) =>
           f.line = field_line(union_branch(f.type), f.name, f.idx)
      /\ (classes[emitted[i].model].name = "Node" /\ f.name = "children") =>
           f.line = "repeated Node children = 2;"

-----------------------------------------------------------------------------
\* The text a message has when each field line ends with one semicolon.
LineWithOneSemicolon(f) ==
    concat(<<"    ",
             IF is_repeated(f.type) THEN "repeated " ELSE "",
             IF is_map(f.type)
             THEN concat(<<"map<", key_type_name(key_type(f.type)), ", ",
                           f.type_name, ">">>)
             ELSE f.type_name,
             " ", f.name, " = ", ToString(f.idx), ";", "\n">>)

\* C9: a message is its header line, one line per field ended by one
\* semicolon, and the closing brace; the message of Point is the text given.
C9_MessageText ==
    \A i \in DOMAIN emitted :
      /\ proto_messages[i] =
           concat(<<"message ", classes[emitted[i].model].name, " {\n">>)
             \o concat([j \in DOMAIN emitted[i].fields |->
                          LineWithOneSemicolon(emitted[i].fields[j])])
             \o "}\n"
      /\ classes[emitted[i].model].name = "Point" =>
           proto_messages[i] = "message Point {\n    int32 x = 1;\n    int32 y = 2;\n}\n"

-----------------------------------------------------------------------------
\* The mapping table: the listed scalars, a structured type's own name, and
\* string for everything else.
TableName(t) ==
    CASE t = IntT   -> "int32"
      [] t = FloatT -> "float"
      [] t = StrT   -> "string"
      [] t = BoolT  -> "bool"
      [] t = BytesT -> "bytes"
      [] t = AnyT   -> "string"
      [] t.k = "class" -> classes[t.n].name
      [] OTHER      -> "string"

SampleTypes ==
    {IntT, FloatT, StrT, BoolT, BytesT, AnyT, NoneType, Complex}
      \cup {Cls(h) : h \in Handles} \cup {Fwd(h) : h \in Handles}
      \cup {Lst(IntT), Lst(Cls("T1")), Dct(StrT, IntT), Opt(IntT),
            UnionOf(<<IntT, StrT>>)}

\* C10: map_type gives every type a name, the one the table lists, and so
\* does every field rendered by the plain branch or as a map value.
C10_TypeMapper ==
    /\ \A t \in SampleTypes : map_type(t) = TableName(t)
    /\ \A i \in DOMAIN emitted : \A j \in DOMAIN emitted[i].fields :
         emitted[i].fields[j].type_name = TableName(nested_type(emitted[i].fields[j].type))

\* A message with a byte-sequence field and a field of an unlisted type has
\* been emitted.
C10_Witness ==
    \E i \in DOMAIN emitted : \E j, k \in DOMAIN emitted[i].fields :
      /\ emitted[i].fields[j].type = BytesT /\ emitted[i].fields[j].type_name = "bytes"
      /\ emitted[i].fields[k].type = Complex /\ emitted[i].fields[k].type_name = "string"

-----------------------------------------------------------------------------
\* C11: no call aborts, whatever the shapes of the field types, and a map
\* without key and value types is rendered with string for both.
C11_NeverAborts ==
    /\ pc # "raised"
    /\ \A i \in DOMAIN emitted : \A j \in DOMAIN emitted[i].fields :
         LET f == emitted[i].fields[j] IN
         f.type = BareDict =>
           f.line = concat(<<"map<string, string> ", f.name, " = ", ToString(f.idx), ";">>)

-----------------------------------------------------------------------------
StackModels == {stack[i].model : i \in DOMAIN stack}

\* C13: while a call runs and when it has returned, every type with an active
\* parse_model, from its first step on, and every type with a message in the
\* accumulator is in the visited set, which holds nothing else but the seed,
\* and no step of a running call takes a type out of the visited set.
C13_PreVisitMarking ==
    /\ [](pc \in {"running", "returned"} =>
            /\ StackModels \subseteq visited_models
            /\ Owners(emitted) \subseteq visited_models
            /\ visited_models = seed \cup StackModels \cup Owners(emitted))
    /\ [][pc = "running" => visited_models \subseteq visited_models']_vars

\* Two types are active, the inner one with no field examined yet, while a
\* message is already in the accumulator.
C13_Witness ==
    /\ pc = "running"
    /\ Len(stack) >= 2
    /\ Top.pos = 1 /\ Top.fields = <<>> /\ Top.type_hints # <<>>
    /\ emitted # <<>>
    /\ StackModels \cup Owners(emitted) \subseteq visited_models

-----------------------------------------------------------------------------
\* The scalars of the table of map_scalar_type.
ScalarTable == {IntT, FloatT, StrT, BoolT, BytesT, AnyT}

KeyWire(K) == IF K \in ScalarTable THEN TableName(K) ELSE "string"

MapFields(msgs) ==
    {f \in UNION {Range(msgs[i].fields) : i \in DOMAIN msgs} :
       f.type.k = "dict" /\ f.type.args # <<>>}

C15_MapFieldListedKeys ==
    \A f \in MapFields(emitted) :
      LET K == f.type.args[1]
          V == f.type.args[2]
      IN  /\ f.line = concat(<<"map<",
                               IF K \in {IntT, FloatT, StrT, BoolT}
                               THEN TableName(K) ELSE "string",
                               ", ", TableName(V), "> ",
                               f.name, " = ", ToString(f.idx), ";">>)
          /\ V.k = "class" => V.n \in visited_models

-----------------------------------------------------------------------------
\* No type reachable from the models lies on a cycle of references.
Acyclic(ms) == \A h \in Reachable(ms, {}) : h \notin Closure(Refs(h), {})

\* C16: when a call with an empty seed over an acyclic graph has returned,
\* the message of a type comes before the message of every type it
\* references, whatever the order of the models.
C16_TopologicalOrder ==
    (Returned /\ seed = {} /\ Acyclic(models)) =>
      \A X \in Owners(output) : \A Y \in Refs(X) :
        /\ Places(output, Y) # {}
        /\ \A i \in Places(output, X), j \in Places(output, Y) : i < j

\* Such a call has returned, the referenced type listed before the type that
\* references it, which references a third type too.
C16_Witness ==
    /\ Returned /\ seed = {} /\ Acyclic(models)
    /\ Len(models) = 2
    /\ models[1] \in Refs(models[2])
    /\ Cardinality(Refs(models[2])) = 2
    /\ Len(output) = 3

-----------------------------------------------------------------------------
\* The types whose name a field of the messages carries as its type or as its
\* map value type.
NamedTypes(msgs) ==
    {h \in Handles : \E i \in DOMAIN msgs : \E j \in DOMAIN msgs[i].fields :
       msgs[i].fields[j].type_name = classes[h].name}

\* C17: when a call has returned, every type that a field of an output
\* message names is in the seed or has exactly one message in that output; with
\* an empty seed every named type has exactly one message.
C17_ReferentialClosure ==
    Returned =>
      /\ \A h \in NamedTypes(output) :
           h \in seed \/ Cardinality(Places(output, h)) = 1
      /\ seed = {} =>
           \A h \in NamedTypes(output) : Cardinality(Places(output, h)) = 1

\* A returned output names a seeded type, which has no message in it, and a
\* type that has its message in it.
C17_Witness ==
    /\ Returned
    /\ NamedTypes(output) \cap seed # {}
    /\ NamedTypes(output) \cap Owners(output) # {}
    /\ seed \cap Owners(output) = {}

-----------------------------------------------------------------------------
\* C18: when a call that was passed a non-empty set has returned, the caller's
\* set is what it was at the call plus the types with a message in the output;
\* when it was passed an empty set it is still empty; no step of a call that
\* was passed an empty set or no set changes the caller's set, and no step
\* whatever takes a type out of it.
C18_CallerSetEffect ==
    /\ []((Returned /\ passed = "set") =>
            callerSet = IF seed # {} THEN seed \cup Owners(output) ELSE {})
    /\ [][(pc = "running" /\ (passed = "none" \/ seed = {}))
            => callerSet' = callerSet]_vars
    /\ [][callerSet \subseteq callerSet']_vars

\* A call passed a non-empty set has returned two messages and the caller's
\* set has grown by their two types.
C18_Witness ==
    /\ Returned /\ passed = "set" /\ seed # {}
    /\ Cardinality(Owners(output)) = 2
    /\ callerSet = seed \cup Owners(output)
    /\ callerSet # seed

-----------------------------------------------------------------------------
\* The text of a call as a function of the declarations and the models alone:
\* a depth-first walk from an empty visited set, each type's message placed
\* after the messages of the types first met in its fields, the whole reversed.
RefSeq(h) ==
    LET hints == get_model_fields(Cls(h))
        nested == [i \in DOMAIN hints |-> nested_type(hints[i].type)]
        models_only == SelectSeq(nested, is_model)
    IN  [i \in DOMAIN models_only |-> models_only[i].n]

RECURSIVE Visit(_, _)
RECURSIVE VisitAll(_, _)
Visit(h, st) ==
    IF h \in st.vis THEN st
    ELSE LET below == VisitAll(RefSeq(h), [vis |-> st.vis \cup {h}, acc |-> st.acc])
         IN  [vis |-> below.vis, acc |-> Append(below.acc, h)]

VisitAll(hs, st) ==
    IF hs = <<>> THEN st ELSE VisitAll(Tail(hs), Visit(Head(hs), st))

MessageOf(h) ==
    LET hints == get_model_fields(Cls(h))
    IN  message_text(classes[h].name,
                     [i \in DOMAIN hints |-> field_line(hints[i].type, hints[i].name, i)])

PureText(ms) ==
    LET acc == VisitAll(ms, [vis |-> {}, acc |-> <<>>]).acc
    IN  join("\n", [i \in DOMAIN acc |-> MessageOf(acc[Len(acc) + 1 - i])])

\* C12: the text a call without already_visited returns is a function of its
\* models and the declarations, whatever calls came before and whatever the
\* caller's set holds; the same models give the same text again.
C12_NoPersistedState ==
    (Returned /\ passed = "none") => proto_schema = PureText(models)

\* A call without already_visited has returned two or more messages after an
\* earlier call that was passed a set had emitted one of them, and the
\* caller's set holds a type of the models.
C12_Witness ==
    /\ Returned /\ passed = "none"
    /\ prevEmitted \cap Owners(output) # {}
    /\ callerSet \cap Range(models) # {}
    /\ Len(output) >= 2
    /\ proto_schema = PureText(models)

-----------------------------------------------------------------------------
\* The types in depth-first post-order from the models, the seed given as
\* visited.
PostOrder(ms, given) == VisitAll(ms, [vis |-> given, acc |-> <<>>]).acc

NoPath(a, b) == b \notin Closure({a}, {}) /\ a \notin Closure({b}, {})

\* C14: a message is appended while every type whose fields are being
\* processed, the one that referenced it included, has no message yet; when a
\* call has returned, the accumulator holds the types in depth-first
\* post-order, the output and the text list the messages in the reverse of
\* that order, and of two models without a reference path between them the
\* second has its message before the first.
C14_PostOrderReversed ==
    /\ [](StackModels \cap Owners(emitted) = {})
    /\ [][(pc = "running" /\ emitted' # emitted) =>
            /\ stack # <<>>
            /\ emitted' = Append(emitted, emitted'[Len(emitted')])
            /\ emitted'[Len(emitted')].model = Top.model
            /\ StackModels' \cap Owners(emitted') = {}]_vars
    /\ [](Returned =>
            /\ [i \in DOMAIN emitted |-> emitted[i].model] = PostOrder(models, seed)
            /\ Len(output) = Len(emitted)
            /\ \A i \in DOMAIN output : output[i] = emitted[Len(emitted) + 1 - i]
            /\ proto_schema =
                 join("\n", [i \in DOMAIN proto_messages |->
                               proto_messages[Len(proto_messages) + 1 - i]])
            /\ ( /\ Len(models) = 2 /\ models[1] # models[2]
                 /\ Range(models) \cap seed = {}
                 /\ NoPath(models[1], models[2]) )
               => \A i \in Places(output, models[2]), j \in Places(output, models[1]) :
                    i < j)

\* Two models without a reference path between them have returned three
\* messages, the second model's before the first's, and the third type's, met
\* in a field of the first, after the first's.
C14_Witness ==
    /\ Returned
    /\ Len(models) = 2 /\ models[1] # models[2]
    /\ Range(models) \cap seed = {}
    /\ NoPath(models[1], models[2])
    /\ Len(output) = 3
    /\ output[1].model = models[2]
    /\ output[2].model = models[1]
    /\ output[3].model \in Refs(models[1])
    /\ emitted[1].model = output[3].model

====
